---- MODULE Spec2Model ----
(***************************************************************************)
(* Model of the double-click translation extension:                        *)
(*   - the content script (selection trigger, request-id tagging, overlay  *)
(*     data) of src/contentScript.js lines 1-919,                          *)
(*   - the background service worker (settings resolver, provider          *)
(*     fallback, caches, dictionary lookup, message listener) of           *)
(*     src/contentScript.js lines 921-1208,                                *)
(*   - the options page's settings writer of src/options.js.               *)
(*                                                                         *)
(* JavaScript strings that the code inspects character by character (the   *)
(* selected text, dictionary fields) are sequences of one-character        *)
(* strings.  Strings the code only tests for truthiness and passes on      *)
(* (translations, provider names, the stored provider preference) are TLA+ *)
(* strings, with Undefined and Null standing for the JavaScript values.    *)
(*                                                                         *)
(* One action is one run of JavaScript between two suspension points       *)
(* (event delivery, an awaited promise settling), so the interleavings of  *)
(* the model are those of the event loop.                                  *)
(***************************************************************************)
EXTENDS Integers, Sequences, FiniteSets, TLC

\* ------------------------------------------------------------------ bounds

\* Number of TRANSLATE_AND_DEFINE exchanges (selection triggers and messages
\* from other senders) one behaviour holds.
MaxReq == 2

\* Longest list of phonetic sub-entries the dictionary extraction is run on.
MaxPhon == 2

\* ------------------------------------------------------- JavaScript values

Undefined == "<undefined>"
Null == "<null>"

\* JavaScript truthiness of a string-or-undefined-or-null value.
Truthy(v) == v \notin {Undefined, Null, ""}

\* a || b
Or2(a, b) == IF Truthy(a) THEN a ELSE b

\* Tagged values for fields that hold either a character sequence or not a
\* string at all (typeof p.text === "string").
JStr(s) == [t |-> "string", v |-> s]
JUndef == [t |-> "undefined", v |-> <<>>]
JNull == [t |-> "null", v |-> <<>>]
JNum(digits) == [t |-> "number", v |-> digits]

\* "" + v: the string a value becomes when it is concatenated to a string.
ToStr(v) ==
  IF v.t = "undefined" THEN <<"u", "n", "d", "e", "f", "i", "n", "e", "d">>
  ELSE IF v.t = "null" THEN <<"n", "u", "l", "l">>
  ELSE v.v

\* ------------------------------------------------------- string functions

Whitespace == {" ", "\n"}
Letters == {"a", "b", "A", "B"}
\* Characters isProbablyEnglish strips besides whitespace.
StrippedPunct == {",", ".", "!", "?", ":", ";", "\"", "'", "(", ")", "[", "]", "{", "}"}
\* Characters isSingleWord allows after the first letter, besides letters.
WordJoiners == {"-", "'"}

RECURSIVE TrimStart(_)
TrimStart(s) ==
  IF s = <<>> THEN <<>>
  ELSE IF Head(s) \in Whitespace THEN TrimStart(Tail(s))
  ELSE s

RECURSIVE TrimEnd(_)
TrimEnd(s) ==
  IF s = <<>> THEN <<>>
  ELSE IF s[Len(s)] \in Whitespace THEN TrimEnd(SubSeq(s, 1, Len(s) - 1))
  ELSE s

\* String.prototype.trim
Trim(s) == TrimEnd(TrimStart(s))

LowerChar(c) == CASE c = "A" -> "a" [] c = "B" -> "b" [] OTHER -> c

\* String.prototype.toLowerCase
ToLowerCase(s) == [i \in 1..Len(s) |-> LowerChar(s[i])]

\* A TLA+ string constant spelled as a character sequence.
ProviderKeyChars(k) ==
  CASE k = "libre" -> <<"l", "i", "b", "r", "e">>
    [] k = "mymemory" -> <<"m", "y", "m", "e", "m", "o", "r", "y">>

\* providerKey + "::" + text
CacheKey(providerKey, text) == ProviderKeyChars(providerKey) \o <<":", ":">> \o text

\* "DICT::" + text.toLowerCase()
DictKey(text) == <<"D", "I", "C", "T", ":", ":">> \o ToLowerCase(text)

RECURSIVE CountIn(_, _)
CountIn(s, set) ==
  IF s = <<>> THEN 0
  ELSE (IF Head(s) \in set THEN 1 ELSE 0) + CountIn(Tail(s), set)

\* text.replace(/[\s,...]/g, "")
Cleaned(text) == SelectSeq(text, LAMBDA c : c \notin Whitespace \cup StrippedPunct)

\* letters > 0 && letters / total >= 0.6
isProbablyEnglish(text) ==
  LET cleaned == Cleaned(text)
      letters == CountIn(cleaned, Letters)
      total == Len(cleaned)
  IN  /\ cleaned # <<>>
      /\ letters > 0
      /\ letters * 10 >= 6 * total

\* /^[A-Za-z][A-Za-z\-']*$/.test(text.trim())
isSingleWord(text) ==
  LET t == Trim(text)
  IN  /\ t # <<>>
      /\ t[1] \in Letters
      /\ \A i \in 2..Len(t) : t[i] \in Letters \cup WordJoiners

\* ---------------------------------------------------------------- settings

\* DEFAULT_SETTINGS of the background worker; the provider preference is the
\* one field the orchestration reads.
DEFAULT_SETTINGS == [provider |-> "auto"]

\* What chrome.storage.sync holds under "settings": nothing, a value that is
\* not an object (every field of it reads undefined), or an object whose
\* provider field is undefined, "" or some string.
StoredAbsent == [kind |-> "absent", provider |-> Undefined]
StoredScalar == [kind |-> "scalar", provider |-> Undefined]
StoredObject(p) == [kind |-> "object", provider |-> p]

\* The values the options page's provider <select> can hold.
ProviderOptions == {"auto", "libre", "mymemory"}

\* What the store holds when only this extension has written to it.
SavedValues == {StoredAbsent} \cup {StoredObject(p) : p \in ProviderOptions}

StoredProviders == {Undefined, ""} \cup ProviderOptions \cup {"bogus"}
StoredValues == {StoredAbsent, StoredScalar} \cup {StoredObject(p) : p \in StoredProviders}

\* How one chrome.storage.sync.get call ends: the API throws, the callback
\* runs with chrome.runtime.lastError set, or it runs with the stored value.
ReadOutcomes == {"throws", "lastError", "ok"}

\* The promise getUserSettings returns, once settled.
Resolved(settings) == [state |-> "resolved", settings |-> settings]
Rejected == [state |-> "rejected", settings |-> DEFAULT_SETTINGS]
Pending == [state |-> "pending", settings |-> DEFAULT_SETTINGS]

\* catch (e) { resolve({...DEFAULT_SETTINGS}) }, the lastError branch, and
\* result.settings || {}  then  stored.provider || DEFAULT_SETTINGS.provider
getUserSettings(outcome, stored) ==
  IF outcome = "throws" THEN Resolved(DEFAULT_SETTINGS)
  ELSE IF outcome = "lastError" THEN Resolved(DEFAULT_SETTINGS)
  ELSE Resolved([provider |-> Or2(stored.provider, DEFAULT_SETTINGS.provider)])

\* Bug variant: a single-provider preference still falls back to the other.
getProvidersOrderFallback(providerSetting) ==
  CASE providerSetting = "libre" -> <<"libre", "mymemory">>
    [] providerSetting = "mymemory" -> <<"mymemory", "libre">>
    [] OTHER -> <<"libre", "mymemory">>

\* Bug variant: a switch without the default case.
getProvidersOrderNoDefault(providerSetting) ==
  CASE providerSetting = "libre" -> <<"libre">>
    [] providerSetting = "mymemory" -> <<"mymemory">>
    [] providerSetting = "auto" -> <<"libre", "mymemory">>
    [] OTHER -> <<>>

getProvidersOrder(providerSetting) ==
  CASE providerSetting = "libre" -> <<"libre">>
    [] providerSetting = "mymemory" -> <<"mymemory">>
    [] OTHER -> <<"libre", "mymemory">>

\* saveSettings of the options page: the object written to the store.
saveSettings(provider) == StoredObject(provider)

\* --------------------------------------------------------------- providers

\* Translated strings a provider may put in a response field.
Translations == {"zhA", "zhB"}
FieldValues == {Undefined, ""} \cup Translations

\* A provider call's outcome: fetch rejects ("neterr"), a non-2xx status
\* ("http"), response.json() rejects ("badjson"), the body is JSON null
\* ("null"), or the body is an object with the fields below ("body").
FailKinds == {"neterr", "http", "badjson", "null"}

LibreReply(kind, a, b, c) ==
  [kind |-> kind, translatedText |-> a, translation |-> b, translated_text |-> c]

LibreResponses ==
  {LibreReply(k, Undefined, Undefined, Undefined) : k \in FailKinds}
    \cup {LibreReply("body", a, b, c) : a \in FieldValues, b \in {Undefined, "zhB"}, c \in {"", "zhA"}}

\* matches is modelled by whether it is an array and, if so, the translation
\* fields of its elements.
MyMemoryReply(kind, rd, isArr, ms) ==
  [kind |-> kind, responseData |-> rd, matchesIsArray |-> isArr, matches |-> ms]

MyMemoryResponses ==
  {MyMemoryReply(k, Undefined, FALSE, <<>>) : k \in FailKinds}
    \cup {MyMemoryReply("body", rd, FALSE, <<>>) : rd \in FieldValues}
    \cup {MyMemoryReply("body", rd, TRUE, <<>>) : rd \in FieldValues}
    \cup {MyMemoryReply("body", rd, TRUE, <<m>>) : rd \in FieldValues, m \in {"", "zhA"}}

NoTranslation == [isNull |-> TRUE, translation |-> Null, provider |-> Null]
TranslationResult(t, p) == [isNull |-> FALSE, translation |-> t, provider |-> p]

\* What an awaited call hands back: a value, or a thrown error.
Returned(v) == [threw |-> FALSE, value |-> v, error |-> ""]
Thrown(e) == [threw |-> TRUE, value |-> NoTranslation, error |-> e]

translateWithLibre(resp) ==
  IF resp.kind = "neterr" THEN Thrown("fetch failed")
  ELSE IF resp.kind = "http" THEN Thrown("LibreTranslate HTTP")
  ELSE IF resp.kind = "badjson" THEN Thrown("invalid JSON")
  ELSE IF resp.kind = "null" THEN Thrown("TypeError")
  ELSE LET translated == Or2(resp.translatedText, Or2(resp.translation, resp.translated_text))
       IN  IF ~Truthy(translated) THEN Thrown("LibreTranslate no translation")
           ELSE Returned(TranslationResult(translated, "LibreTranslate"))

\* Bug variant: the result is labelled with the other provider's name.
translateWithMyMemoryMislabelled(resp) ==
  IF resp.kind \in {"neterr", "http", "badjson"} THEN Thrown("MyMemory failed")
  ELSE LET fromMatches ==
             IF resp.kind = "body" /\ resp.matchesIsArray /\ Len(resp.matches) > 0
             THEN resp.matches[1] ELSE ""
           translated ==
             IF resp.kind = "body" THEN Or2(resp.responseData, fromMatches) ELSE fromMatches
       IN  IF ~Truthy(translated) THEN Thrown("MyMemory no translation")
           ELSE Returned(TranslationResult(translated, "LibreTranslate"))

translateWithMyMemory(resp) ==
  IF resp.kind = "neterr" THEN Thrown("fetch failed")
  ELSE IF resp.kind = "http" THEN Thrown("MyMemory HTTP")
  ELSE IF resp.kind = "badjson" THEN Thrown("invalid JSON")
  ELSE LET fromMatches ==
             IF resp.kind = "body" /\ resp.matchesIsArray /\ Len(resp.matches) > 0
             THEN resp.matches[1] ELSE ""
           translated ==
             IF resp.kind = "body" THEN Or2(resp.responseData, fromMatches) ELSE fromMatches
       IN  IF ~Truthy(translated) THEN Thrown("MyMemory no translation")
           ELSE Returned(TranslationResult(translated, "MyMemory"))

ProviderResponses(providerKey) ==
  IF providerKey = "libre" THEN LibreResponses ELSE MyMemoryResponses

\* The call handleTranslateAndDefine makes for one provider key.
translateWith(providerKey, resp) ==
  IF providerKey = "libre" THEN translateWithLibre(resp) ELSE translateWithMyMemory(resp)

\* -------------------------------------------------------------- dictionary

DictNull == [isNull |-> TRUE, ipa |-> JNull, audio |-> JNull]
DictEntry(ipa, audio) == [isNull |-> FALSE, ipa |-> ipa, audio |-> audio]

DictReturned(v) == [threw |-> FALSE, value |-> v, error |-> ""]
DictThrown(e) == [threw |-> TRUE, value |-> DictNull, error |-> e]

\* One element of entry.phonetics: null, or an object whose text and audio
\* are strings or not strings.
PhonNull == [isNull |-> TRUE, text |-> JUndef, audio |-> JUndef]
Phon(text, audio) == [isNull |-> FALSE, text |-> text, audio |-> audio]

\* p && typeof p.text === "string" && p.text.trim()
HasText(p) == ~p.isNull /\ p.text.t = "string" /\ Trim(p.text.v) # <<>>

\* p && typeof p.audio === "string" && p.audio.trim()
HasAudio(p) == ~p.isNull /\ p.audio.t = "string" /\ Trim(p.audio.v) # <<>>

\* for (const p of phonetics) { if (...) { ipa = p.text.trim(); break; } },
\* starting from ipa = "".
RECURSIVE FirstIpa(_)
FirstIpa(phonetics) ==
  IF phonetics = <<>> THEN <<>>
  ELSE IF HasText(Head(phonetics)) THEN Trim(Head(phonetics).text.v)
  ELSE FirstIpa(Tail(phonetics))

\* Bug variant: one loop; the audio is taken from the sub-entry that gave
\* the transcription.
RECURSIVE FirstAudioOfIpaEntry(_)
FirstAudioOfIpaEntry(phonetics) ==
  IF phonetics = <<>> THEN <<>>
  ELSE IF HasText(Head(phonetics))
       THEN (IF HasAudio(Head(phonetics)) THEN Trim(Head(phonetics).audio.v) ELSE <<>>)
  ELSE FirstAudioOfIpaEntry(Tail(phonetics))

\* The second loop, over audio.
RECURSIVE FirstAudio(_)
FirstAudio(phonetics) ==
  IF phonetics = <<>> THEN <<>>
  ELSE IF HasAudio(Head(phonetics)) THEN Trim(Head(phonetics).audio.v)
  ELSE FirstAudio(Tail(phonetics))

\* s || null
OrNull(s) == IF s = <<>> THEN JNull ELSE JStr(s)

\* Lines 1072-1102: from entry.phonetics (already known to be an array) to
\* the value fetchDictionary returns.
ExtractPhonetics(phonetics) ==
  LET ipa == FirstIpa(phonetics)
      audio == FirstAudio(phonetics)
  IN  IF ipa = <<>> /\ audio = <<>> THEN DictNull
      ELSE DictEntry(OrNull(ipa), OrNull(audio))

\* A dictionary call's outcome: fetch rejects, a non-2xx status, a body that
\* is not JSON, a body that is not a non-empty array ("notarray"), or an
\* array whose first element holds phonetics (an array or not).
DictFailKinds == {"neterr", "http", "badjson", "notarray"}
DictReply(kind, isArr, ps) == [kind |-> kind, phoneticsIsArray |-> isArr, phonetics |-> ps]

fetchDictionary(resp) ==
  IF resp.kind = "neterr" THEN DictThrown("fetch failed")
  ELSE IF resp.kind = "http" THEN DictThrown("Dictionary HTTP")
  ELSE IF resp.kind = "badjson" THEN DictThrown("invalid JSON")
  ELSE IF resp.kind = "notarray" THEN DictThrown("Dictionary bad format")
  ELSE DictReturned(ExtractPhonetics(IF resp.phoneticsIsArray THEN resp.phonetics ELSE <<>>))

\* Field values and sub-entries the extraction is exercised on.
IpaA == <<"/", "a", "/">>
IpaB == <<" ", "/", "b", "/">>
UrlA == <<"u", "1">>
UrlB == <<"u", "2", " ">>
PhonTexts == {JUndef, JStr(<<>>), JStr(<<" ">>), JStr(IpaA), JStr(IpaB)}
PhonAudios == {JUndef, JStr(<<>>), JStr(<<" ">>), JStr(UrlA), JStr(UrlB)}
PhonEntries == {PhonNull} \cup {Phon(t, a) : t \in PhonTexts, a \in PhonAudios}

RECURSIVE SeqsUpTo(_, _)
SeqsUpTo(S, n) ==
  IF n = 0 THEN {<<>>}
  ELSE LET shorter == SeqsUpTo(S, n - 1)
       IN  shorter \cup {Append(q, x) : q \in shorter, x \in S}

PhoneticsInputs == SeqsUpTo(PhonEntries, MaxPhon)

\* Dictionary replies the orchestrator is run against.
DictResponses ==
  {DictReply(k, FALSE, <<>>) : k \in DictFailKinds}
    \cup { DictReply("body", FALSE, <<>>),
           DictReply("body", TRUE, <<>>),
           DictReply("body", TRUE, <<Phon(JStr(<<>>), JUndef)>>),
           DictReply("body", TRUE, <<Phon(JStr(IpaA), JUndef)>>),
           DictReply("body", TRUE, <<Phon(JStr(<<>>), JStr(UrlB)), Phon(JStr(IpaB), JStr(UrlA))>>) }

\* ------------------------------------------------------------------- state

VARIABLES
  storage,           \* chrome.storage.sync, key "settings"
  translationCache,  \* Map: "providerKey::text" -> {translation, provider}
  dictCache,         \* Map: "DICT::word" -> {ipa, audio}
  reqs,              \* the TRANSLATE_AND_DEFINE exchanges, oldest first
  currentRequestId,  \* content script: id of the newest request
  currentData,       \* content script: what the overlay shows
  lastTriggerText,   \* content script: text of the last trigger
  wrapper,           \* content script: ui.wrapper exists
  phonetics,         \* dictionary extraction check: its input
  extracted          \* dictionary extraction check: its output

vars == <<storage, translationCache, dictCache, reqs, currentRequestId,
          currentData, lastTriggerText, wrapper, phonetics, extracted>>

uiVars == <<currentRequestId, currentData, lastTriggerText, wrapper>>
bgVars == <<storage, translationCache, dictCache>>
dictCheckVars == <<phonetics, extracted>>

\* The fixed user-facing message of the failure result (line 1166).
FailureMessage == "translation failed, please retry later"

\* now - lastTriggerAt < 300
DebounceMs == 300

NoResponse ==
  [sent |-> FALSE, success |-> FALSE, error |-> Undefined, provider |-> Null,
   translation |-> Null, dict |-> DictNull]

\* Bug variant: the failure result drops the dictionary entry.
BuildResponseDropsDict(translationResult, dictResult) ==
  IF translationResult.isNull
  THEN [sent |-> TRUE, success |-> FALSE, error |-> FailureMessage, provider |-> Null,
        translation |-> Null, dict |-> DictNull]
  ELSE [sent |-> TRUE, success |-> TRUE, error |-> Undefined,
        provider |-> translationResult.provider,
        translation |-> translationResult.translation, dict |-> dictResult]

\* Lines 1163-1178: the object handleTranslateAndDefine returns.
BuildResponse(translationResult, dictResult) ==
  IF translationResult.isNull
  THEN [sent |-> TRUE, success |-> FALSE, error |-> FailureMessage, provider |-> Null,
        translation |-> Null, dict |-> dictResult]
  ELSE [sent |-> TRUE, success |-> TRUE, error |-> Undefined,
        provider |-> translationResult.provider,
        translation |-> translationResult.translation, dict |-> dictResult]

\* The .catch branch of the listener (lines 1192-1200).
CatchResponse ==
  [sent |-> TRUE, success |-> FALSE, error |-> FailureMessage, provider |-> Null,
   translation |-> Null, dict |-> DictNull]

\* A message as the listener sees it. type is Undefined when the message is
\* null or its type is missing or not a string.
Message(type, text, isWord) ==
  [type |-> type, text |-> text, isWord |-> isWord, textIsString |-> TRUE]

\* A message whose text is any value (absent, null, a number, a string): the
\* listener tests the type only. text holds the string the value becomes in
\* providerKey + "::" + text; textIsString tells whether text.toLowerCase()
\* can be called.
MessageWithText(type, value, isWord) ==
  [type |-> type, text |-> ToStr(value), isWord |-> isWord,
   textIsString |-> (value.t = "string")]

\* One exchange: the message, where the handler stands (pc), its locals, and
\* a record of what it did: netlog, the network calls it issued, in order;
\* reads, hits and writes, the cache keys it looked up, found and set;
\* returned, what its last successful provider call handed back. The local
\* lastError is assigned and never read, so it has no field.
NewRequest(origin, rid, msg) ==
  [origin |-> origin, rid |-> rid, type |-> msg.type, text |-> msg.text,
   textIsString |-> msg.textIsString,
   isWord |-> msg.isWord, pc |-> "sent", settings |-> DEFAULT_SETTINGS,
   order |-> <<>>, idx |-> 1, translationResult |-> NoTranslation,
   dictResult |-> DictNull, netlog |-> <<>>, inflight |-> 0,
   reads |-> {}, hits |-> {}, writes |-> {}, returned |-> NoTranslation, response |-> NoResponse, responses |-> 0,
   cb |-> IF origin = "ui" THEN "pending" ELSE "none"]

MapSet(m, k, v) == [x \in DOMAIN m \cup {k} |-> IF x = k THEN v ELSE m[x]]
EmptyMap == [x \in {} |-> 0]

\* Bug variant: sendResponse is called in .then and once more afterwards.
FinishAnswersTwice(r) ==
  [r EXCEPT !.pc = "responded",
            !.response = BuildResponse(r.translationResult, r.dictResult),
            !.responses = @ + 2]

\* The return of handleTranslateAndDefine and the .then that calls
\* sendResponse with it.
Finish(r) ==
  [r EXCEPT !.pc = "responded",
            !.response = BuildResponse(r.translationResult, r.dictResult),
            !.responses = @ + 1]

\* The handler throws: its promise rejects and the listener's .catch (lines
\* 1192-1200) answers with the fixed failure.
Reject(r) ==
  [r EXCEPT !.pc = "responded", !.response = CatchResponse, !.responses = @ + 1]

\* Lines 1143-1161 up to the awaited fetchDictionary call. text.toLowerCase()
\* (line 1146) is outside the try: it throws when text is not a string.
DictPhase(r, dc) ==
  IF r.isWord /\ ~r.textIsString THEN Reject(r)
  ELSE IF r.isWord
  THEN LET dictKey == DictKey(r.text)
       IN  IF dictKey \in DOMAIN dc
           THEN Finish([r EXCEPT !.dictResult = dc[dictKey], !.reads = @ \cup {dictKey},
                                 !.hits = @ \cup {dictKey}])
           ELSE [r EXCEPT !.pc = "dict", !.reads = @ \cup {dictKey},
                          !.netlog = Append(@, "dict"), !.inflight = @ + 1]
  ELSE Finish(r)

\* Bug variant: the loop never looks in the cache.
TryProvidersNoCache(r, tc, dc) ==
  IF r.idx > Len(r.order) THEN DictPhase(r, dc)
  ELSE [r EXCEPT !.pc = "translate", !.netlog = Append(@, r.order[r.idx]),
                 !.inflight = @ + 1]

\* Bug variant: an entry cached under any provider still to come is used
\* before a network call is made.
TryProvidersAnyCached(r, tc, dc) ==
  IF r.idx > Len(r.order) THEN DictPhase(r, dc)
  ELSE LET cached == {j \in r.idx..Len(r.order) : CacheKey(r.order[j], r.text) \in DOMAIN tc}
           providerKey == r.order[r.idx]
           cacheKey == CacheKey(providerKey, r.text)
           seen == [r EXCEPT !.reads = @ \cup {cacheKey}]
       IN  IF cached # {}
           THEN LET j == CHOOSE j \in cached : \A k \in cached : j <= k
                    key == CacheKey(r.order[j], r.text)
                IN  DictPhase([r EXCEPT !.translationResult = tc[key], !.idx = j,
                                        !.reads = @ \cup {key}, !.hits = @ \cup {key}], dc)
           ELSE [seen EXCEPT !.pc = "translate", !.netlog = Append(@, providerKey),
                             !.inflight = @ + 1]

\* Lines 1116-1141 from the provider at r.idx up to the next awaited call (or
\* through the dictionary phase when the loop ends without one).
TryProviders(r, tc, dc) ==
  IF r.idx > Len(r.order) THEN DictPhase(r, dc)
  ELSE LET providerKey == r.order[r.idx]
           cacheKey == CacheKey(providerKey, r.text)
           seen == [r EXCEPT !.reads = @ \cup {cacheKey}]
       IN  IF cacheKey \in DOMAIN tc
           THEN DictPhase([seen EXCEPT !.translationResult = tc[cacheKey],
                                       !.hits = @ \cup {cacheKey}], dc)
           ELSE [seen EXCEPT !.pc = "translate", !.netlog = Append(@, providerKey),
                             !.inflight = @ + 1]

NotExtracted == [done |-> FALSE, value |-> DictNull]

\* ------------------------------------------------------------------ inputs

\* What window.getSelection().toString() may hold at a trigger: nothing
\* (collapsed), blanks only, a word, the same word capitalised and padded,
\* a phrase, and text that is not English.
Selections ==
  { <<>>, <<" ">>, <<"a">>, <<" ", "A", "\n">>, <<"a", " ", "b">>, <<"7">> }

\* Texts of TRANSLATE_AND_DEFINE messages that reach the listener from
\* senders other than this content script.
ExternalMessages ==
  { Message(Undefined, <<>>, FALSE),
    Message("PING", <<>>, FALSE),
    Message("TRANSLATE_AND_DEFINE", <<" ">>, TRUE),
    MessageWithText("TRANSLATE_AND_DEFINE", JUndef, TRUE) }

Slots == 1..Len(reqs)

ClearedData ==
  [text |-> <<>>, translation |-> "", provider |-> "", ipa |-> JNull, audio |-> JNull]

\* updateOverlayLoading and updateOverlayFailure (lines 497-503, 583-589).
LoadingData(text) ==
  [text |-> text, translation |-> "", provider |-> "", ipa |-> JNull, audio |-> JNull]

\* payload.dict && payload.dict.ipa ? payload.dict.ipa : null
DictField(dict, v) == IF ~dict.isNull /\ v.t = "string" /\ v.v # <<>> THEN v ELSE JNull

\* updateOverlaySuccess (lines 536-542).
SuccessData(text, payload) ==
  [text |-> text,
   translation |-> Or2(payload.translation, ""),
   provider |-> Or2(payload.provider, ""),
   ipa |-> DictField(payload.dict, payload.dict.ipa),
   audio |-> DictField(payload.dict, payload.dict.audio)]

\* An exchange that is over: the sender has had its answer ("done"), has
\* dropped it as stale ("stale"), or the message was lost ("lost"). Nothing
\* reads its locals any more; the record keeps who sent it.
Closed(r, how) ==
  [NewRequest(r.origin, r.rid, Message(r.type, <<>>, FALSE)) EXCEPT
     !.pc = how, !.cb = IF r.origin = "ui" THEN "done" ELSE "none",
     !.responses = r.responses]

\* ----------------------------------------------------------- content script

\* triggerTranslateFromSelection (lines 760-887): a double click or a
\* finished selection, with `elapsed` = now - lastTriggerAt.
Trigger(sel, elapsed) ==
  LET text == Trim(sel)
      skip == \/ sel = <<>>
              \/ text = <<>>
              \/ ~isProbablyEnglish(text)
              \/ (text = lastTriggerText /\ elapsed < DebounceMs)
      requestId == currentRequestId + 1
  IN  IF skip
      THEN UNCHANGED vars
      ELSE /\ Len(reqs) < MaxReq
           /\ lastTriggerText' = text
           /\ currentRequestId' = requestId
           /\ wrapper' = TRUE
           /\ currentData' = LoadingData(text)
           /\ reqs' = Append(reqs, NewRequest("ui", requestId,
                               Message("TRANSLATE_AND_DEFINE", text, isSingleWord(text))))
           /\ UNCHANGED <<bgVars, dictCheckVars>>

\* Bug variant: the callback does not compare request ids.
CallbackDataUntagged(r, portError) ==
  IF portError THEN LoadingData(r.text)
  ELSE IF ~r.response.success THEN LoadingData(r.text)
  ELSE SuccessData(r.text, r.response)

\* The decision of the sendMessage callback (lines 860-876): "stale" returns
\* at once, otherwise the overlay data it writes.
CallbackData(r, portError) ==
  IF r.rid # currentRequestId THEN currentData
  ELSE IF portError THEN LoadingData(r.text)
  ELSE IF ~r.response.success THEN LoadingData(r.text)
  ELSE SuccessData(r.text, r.response)

\* The callback passed to chrome.runtime.sendMessage runs: with the response
\* the worker sent, or with chrome.runtime.lastError set because the message
\* found no receiver (it is then lost).
Callback(i, portError) ==
  /\ i \in Slots
  /\ reqs[i].origin = "ui"
  /\ reqs[i].cb = "pending"
  /\ reqs[i].pc = IF portError THEN "sent" ELSE "responded"
  /\ currentData' = CallbackData(reqs[i], portError)
  /\ reqs' = [reqs EXCEPT ![i] = Closed(reqs[i],
                  IF reqs[i].rid # currentRequestId THEN "stale"
                  ELSE IF portError THEN "lost" ELSE "done")]
  /\ UNCHANGED <<currentRequestId, lastTriggerText, wrapper, bgVars, dictCheckVars>>

\* applyTheme (lines 139-148) as the callbacks of initSettings run it: the
\* storage callback after page load (lines 83-91), the storage.onChanged
\* listener after a save of the options page (lines 93-98), and the
\* matchMedia listener (lines 104-106). Its ensureOverlayCreated builds the
\* overlay when there is none yet; the theme is not part of the state.
ApplyTheme ==
  /\ wrapper' = TRUE
  /\ UNCHANGED <<currentRequestId, currentData, lastTriggerText, reqs, bgVars, dictCheckVars>>

\* hideOverlay (lines 469-491): close button, click outside, Escape.
HideOverlay ==
  /\ currentData' = IF wrapper THEN ClearedData ELSE currentData
  /\ UNCHANGED <<currentRequestId, lastTriggerText, wrapper, reqs, bgVars, dictCheckVars>>

\* ------------------------------------------------------------- options page

\* saveSettings of the options page (src/options.js).
SaveSettings(provider) ==
  /\ storage' = saveSettings(provider)
  /\ UNCHANGED <<translationCache, dictCache, reqs, uiVars, dictCheckVars>>

\* ---------------------------------------------------------- service worker

\* The onMessage listener (lines 1182-1208) on one message: ignore it, or
\* start handleTranslateAndDefine, which runs up to `await getUserSettings()`.
OnMessage(r) ==
  IF r.type = Undefined THEN [r EXCEPT !.pc = "ignored"]
  ELSE IF r.type = "TRANSLATE_AND_DEFINE" THEN [r EXCEPT !.pc = "settings"]
  ELSE [r EXCEPT !.pc = "ignored"]

\* A message of this content script reaches the listener.
Deliver(i) ==
  /\ i \in Slots
  /\ reqs[i].pc = "sent"
  /\ reqs' = [reqs EXCEPT ![i] = OnMessage(reqs[i])]
  /\ UNCHANGED <<bgVars, uiVars, dictCheckVars>>

\* A message of another sender reaches the listener.
External(msg) ==
  /\ Len(reqs) < MaxReq
  /\ reqs' = Append(reqs, OnMessage(NewRequest("ext", 0, msg)))
  /\ UNCHANGED <<bgVars, uiVars, dictCheckVars>>

\* The other sender's callback has run with the response.
ExternalAnswered(i) ==
  /\ i \in Slots
  /\ reqs[i].origin = "ext"
  /\ reqs[i].pc = "responded"
  /\ reqs' = [reqs EXCEPT ![i] = Closed(reqs[i], "done")]
  /\ UNCHANGED <<bgVars, uiVars, dictCheckVars>>

\* handleTranslateAndDefine resumes after `await getUserSettings()` (lines
\* 1109-1110) and runs to its next await or to its return. A rejected promise
\* would end in the listener's .catch.
AfterSettings(r, promise, tc, dc) ==
  IF promise.state = "rejected"
  THEN Reject(r)
  ELSE TryProviders([r EXCEPT !.settings = promise.settings,
                              !.order = getProvidersOrder(promise.settings.provider),
                              !.idx = 1], tc, dc)

SettingsRead(i, outcome) ==
  /\ i \in Slots
  /\ reqs[i].pc = "settings"
  /\ LET promise == getUserSettings(outcome, storage)
     IN  /\ promise.state # "pending"
         /\ reqs' = [reqs EXCEPT ![i] = AfterSettings(reqs[i], promise, translationCache, dictCache)]
  /\ UNCHANGED <<bgVars, uiVars, dictCheckVars>>

\* Bug variant: the outcome is stored whether or not the call gave a
\* translation.
StoresFailuresToo(res) == TRUE

\* Lines 1131-1135: whether the awaited provider call's outcome is stored.
Stores(res) == ~res.threw /\ ~res.value.isNull /\ Truthy(res.value.translation)

\* Bug variant: an entry already in the cache is kept (first writer wins).
CacheAfterReplyKeepsFirst(r, res, tc) ==
  IF Stores(res) /\ CacheKey(r.order[r.idx], r.text) \notin DOMAIN tc
  THEN MapSet(tc, CacheKey(r.order[r.idx], r.text), res.value) ELSE tc

\* translationCache after the provider call of request r came back as res.
CacheAfterReply(r, res, tc) ==
  IF Stores(res) THEN MapSet(tc, CacheKey(r.order[r.idx], r.text), res.value) ELSE tc

\* Bug variant: no break after a successful call; the loop goes on.
AfterProviderNoBreak(r, res, tc, dc) ==
  LET back == [r EXCEPT !.inflight = @ - 1]
  IN  IF Stores(res)
      THEN TryProviders([back EXCEPT !.translationResult = res.value, !.returned = res.value,
                                     !.writes = @ \cup {CacheKey(r.order[r.idx], r.text)},
                                     !.idx = @ + 1], tc, dc)
      ELSE TryProviders([back EXCEPT !.idx = @ + 1], tc, dc)

\* Bug variant: a failed provider is tried again instead of the next one.
AfterProviderRetry(r, res, tc, dc) ==
  LET back == [r EXCEPT !.inflight = @ - 1]
  IN  IF Stores(res)
      THEN DictPhase([back EXCEPT !.translationResult = res.value, !.returned = res.value,
                                  !.writes = @ \cup {CacheKey(r.order[r.idx], r.text)}], dc)
      ELSE TryProviders(back, tc, dc)

\* The handler after the provider call came back: break with the result, or
\* record the error and go on with the next provider (lines 1131-1140).
AfterProvider(r, res, tc, dc) ==
  LET back == [r EXCEPT !.inflight = @ - 1]
  IN  IF Stores(res)
      THEN DictPhase([back EXCEPT !.translationResult = res.value, !.returned = res.value,
                                  !.writes = @ \cup {CacheKey(r.order[r.idx], r.text)}], dc)
      ELSE TryProviders([back EXCEPT !.idx = @ + 1], tc, dc)

ProviderReply(i, resp) ==
  /\ i \in Slots
  /\ reqs[i].pc = "translate"
  /\ resp \in ProviderResponses(reqs[i].order[reqs[i].idx])
  /\ LET res == translateWith(reqs[i].order[reqs[i].idx], resp)
     IN  /\ translationCache' = CacheAfterReply(reqs[i], res, translationCache)
         /\ reqs' = [reqs EXCEPT ![i] = AfterProvider(reqs[i], res, translationCache', dictCache)]
  /\ UNCHANGED <<storage, dictCache, uiVars, dictCheckVars>>

\* Bug variant: no try/catch around fetchDictionary; its error rejects the
\* handler and the listener answers with the fixed failure.
AfterDictionaryUncaught(r, res) ==
  LET back == [r EXCEPT !.inflight = @ - 1]
  IN  IF res.threw
      THEN Reject(back)
      ELSE IF ~res.value.isNull
      THEN Finish([back EXCEPT !.dictResult = res.value, !.writes = @ \cup {DictKey(r.text)}])
      ELSE Finish(back)

\* Lines 1151-1159: the handler after fetchDictionary came back.
AfterDictionary(r, res) ==
  LET back == [r EXCEPT !.inflight = @ - 1]
  IN  IF ~res.threw /\ ~res.value.isNull
      THEN Finish([back EXCEPT !.dictResult = res.value, !.writes = @ \cup {DictKey(r.text)}])
      ELSE Finish(back)

\* Bug variant: a lookup that found nothing is cached too.
DictCacheAfterReplyCachesNull(r, res, dc) ==
  IF ~res.threw THEN MapSet(dc, DictKey(r.text), res.value) ELSE dc

DictCacheAfterReply(r, res, dc) ==
  IF ~res.threw /\ ~res.value.isNull THEN MapSet(dc, DictKey(r.text), res.value) ELSE dc

DictionaryReply(i, resp) ==
  /\ i \in Slots
  /\ reqs[i].pc = "dict"
  /\ LET res == fetchDictionary(resp)
     IN  /\ dictCache' = DictCacheAfterReply(reqs[i], res, dictCache)
         /\ reqs' = [reqs EXCEPT ![i] = AfterDictionary(reqs[i], res)]
  /\ UNCHANGED <<storage, translationCache, uiVars, dictCheckVars>>

\* ------------------------------------------------------------ specification

Init ==
  /\ storage \in SavedValues
  /\ translationCache = EmptyMap
  /\ dictCache = EmptyMap
  /\ reqs = <<>>
  /\ currentRequestId = 0
  /\ currentData = ClearedData
  /\ lastTriggerText = <<>>
  /\ wrapper = FALSE
  /\ phonetics = <<>>
  /\ extracted = NotExtracted

Next ==
  \/ \E sel \in Selections, elapsed \in {DebounceMs - 1, DebounceMs} : Trigger(sel, elapsed)
  \/ \E i \in Slots, portError \in BOOLEAN : Callback(i, portError)
  \/ HideOverlay
  \/ ApplyTheme
  \/ \E p \in ProviderOptions : SaveSettings(p)
  \/ \E i \in Slots : Deliver(i)
  \/ \E msg \in ExternalMessages : External(msg)
  \/ \E i \in Slots : ExternalAnswered(i)
  \/ \E i \in Slots, outcome \in ReadOutcomes : SettingsRead(i, outcome)
  \/ \E i \in Slots, resp \in LibreResponses \cup MyMemoryResponses : ProviderReply(i, resp)
  \/ \E i \in Slots, resp \in DictResponses : DictionaryReply(i, resp)

Spec == Init /\ [][Next]_vars

\* The next step of the handler of message i: its storage read or the
\* network call it awaits comes back.
Resumes(i) ==
  \/ \E outcome \in ReadOutcomes : SettingsRead(i, outcome)
  \/ \E resp \in LibreResponses \cup MyMemoryResponses : ProviderReply(i, resp)
  \/ \E resp \in DictResponses : DictionaryReply(i, resp)

\* The storage read and every network call come to an end: chrome calls the
\* storage callback, and a fetch resolves or rejects.
Completion == \A i \in 1..MaxReq : WF_vars(Resumes(i))

\* The messages triggerTranslateFromSelection sends (lines 854-858), one for
\* each selection it accepts.
ContentScriptMessages ==
  { Message("TRANSLATE_AND_DEFINE", Trim(sel), isSingleWord(Trim(sel))) :
      sel \in {x \in Selections : Trim(x) # <<>> /\ isProbablyEnglish(Trim(x))} }

\* The messages the worker is run on: those of other senders (ignored types,
\* a blank word, a word without text) and the content script's phrases.
WorkerMessages == ExternalMessages \cup {m \in ContentScriptMessages : ~m.isWord}

\* The service worker on its own: the listener receives the messages of the
\* content script and of other senders alike (it does not look at the
\* sender), the options page saves, and the storage read and the network
\* calls of each message come back.
NextWorker ==
  \/ \E msg \in WorkerMessages : External(msg)
  \/ \E i \in Slots : ExternalAnswered(i)
  \/ \E p \in ProviderOptions : SaveSettings(p)
  \/ \E i \in Slots, outcome \in ReadOutcomes : SettingsRead(i, outcome)
  \/ \E i \in Slots, resp \in LibreResponses \cup MyMemoryResponses : ProviderReply(i, resp)
  \/ \E i \in Slots, resp \in DictResponses : DictionaryReply(i, resp)

SpecLive == Init /\ [][NextWorker]_vars /\ Completion

\* The settings resolver on every stored value, malformed ones included,
\* with the options page saving in between.
InitSettings ==
  /\ storage \in StoredValues
  /\ translationCache = EmptyMap
  /\ dictCache = EmptyMap
  /\ reqs = <<>>
  /\ currentRequestId = 0
  /\ currentData = ClearedData
  /\ lastTriggerText = <<>>
  /\ wrapper = FALSE
  /\ phonetics = <<>>
  /\ extracted = NotExtracted

NextSettings ==
  \/ \E p \in ProviderOptions : SaveSettings(p)
  \/ ApplyTheme
  \/ \E msg \in ExternalMessages : External(msg)
  \/ \E i \in Slots, outcome \in ReadOutcomes : SettingsRead(i, outcome)

SpecSettings == InitSettings /\ [][NextSettings]_vars

\* The dictionary extraction on every list of phonetic sub-entries up to
\* MaxPhon long.
InitDict ==
  /\ storage = StoredAbsent
  /\ translationCache = EmptyMap
  /\ dictCache = EmptyMap
  /\ reqs = <<>>
  /\ currentRequestId = 0
  /\ currentData = ClearedData
  /\ lastTriggerText = <<>>
  /\ wrapper = FALSE
  /\ phonetics \in PhoneticsInputs
  /\ extracted = NotExtracted

Extract ==
  /\ ~extracted.done
  /\ extracted' = [done |-> TRUE, value |-> ExtractPhonetics(phonetics)]
  /\ UNCHANGED <<phonetics, bgVars, reqs, uiVars>>

SpecDict == InitDict /\ [][Extract]_vars

\* ------------------------------------------------------------------ claims

Order2 == <<"libre", "mymemory">>

\* Request r issued a network call of the given kind.
Called(r, what) == \E j \in 1..Len(r.netlog) : r.netlog[j] = what
CallsTo(r, what) == Len(SelectSeq(r.netlog, LAMBDA x : x = what))

\* A provider call of r came back with a translation (r stored it), or r
\* found the provider's entry in the cache.
CallSucceeded(r, providerKey) == CacheKey(providerKey, r.text) \in r.writes
CacheHit(r, providerKey) == CacheKey(providerKey, r.text) \in r.hits
CallFailed(r, providerKey) ==
  /\ Called(r, providerKey)
  /\ ~CallSucceeded(r, providerKey)
  /\ ~(r.pc = "translate" /\ r.order[r.idx] = providerKey)

\* A cache key of the given provider, whatever the text.
KeyOf(providerKey, k) ==
  LET prefix == ProviderKeyChars(providerKey) \o <<":", ":">>
  IN  Len(k) >= Len(prefix) /\ SubSeq(k, 1, Len(prefix)) = prefix

\* C1: in auto order, once the primary provider has succeeded for a request
\* with a text (its call returned a translation, or its entry was cached), the request
\* never calls the secondary provider, and its result is a success that
\* names the primary provider.
C1_PrimaryWins ==
  \A i \in Slots :
    LET r == reqs[i]
    IN  (r.order = Order2 /\ r.textIsString
           /\ (CallSucceeded(r, "libre") \/ CacheHit(r, "libre")))
          => /\ ~Called(r, "mymemory")
             /\ r.pc \in {"dict", "responded"}
             /\ r.pc = "responded" =>
                  r.response.success /\ r.response.provider = "LibreTranslate"

C1_Witness ==
  \E i \in Slots :
    /\ reqs[i].pc = "responded"
    /\ reqs[i].order = Order2
    /\ reqs[i].text # <<>>
    /\ CallSucceeded(reqs[i], "libre")
    /\ reqs[i].response.provider = "LibreTranslate"

\* C2: in auto order, for every text, when the primary provider's call failed
\* and the secondary's call returned a translation, the result is a success carrying
\* exactly what the secondary returned, under the secondary's name.
C2_FallbackResult ==
  \A i \in Slots :
    LET r == reqs[i]
    IN  (r.order = Order2 /\ r.textIsString
           /\ CallFailed(r, "libre") /\ CallSucceeded(r, "mymemory"))
          => /\ r.returned.provider = "MyMemory"
             /\ Truthy(r.returned.translation)
             /\ r.pc \in {"dict", "responded"}
             /\ r.pc = "responded" =>
                  /\ r.response.success
                  /\ r.response.provider = "MyMemory"
                  /\ r.response.translation = r.returned.translation

C2_Witness ==
  \E i \in Slots :
    /\ reqs[i].pc = "responded"
    /\ reqs[i].order = Order2
    /\ CallFailed(reqs[i], "libre")
    /\ CallSucceeded(reqs[i], "mymemory")
    /\ reqs[i].response.translation = "zhB"

\* C3: a request that read the preference "mymemory" calls no provider but
\* MyMemory, and that at most once; it looks up and sets no LibreTranslate
\* cache key; and when its MyMemory call failed it ends in the failure
\* result.
C3_OnlyProviderB ==
  \A i \in Slots :
    LET r == reqs[i]
    IN  (r.settings.provider = "mymemory" /\ r.order # <<>>)
          => /\ ~Called(r, "libre")
             /\ CallsTo(r, "mymemory") <= 1
             /\ \A k \in r.reads \cup r.hits \cup r.writes : ~KeyOf("libre", k)
             /\ (r.pc = "responded" /\ CallFailed(r, "mymemory")) =>
                  /\ ~r.response.success
                  /\ r.response.error = FailureMessage
                  /\ r.response.provider = Null

C3_Witness ==
  \E i \in Slots :
    /\ reqs[i].settings.provider = "mymemory"
    /\ reqs[i].pc = "responded"
    /\ CallFailed(reqs[i], "mymemory")
    /\ ~reqs[i].response.success

\* Request i issues a network call to the provider in the step.
Issues(i, providerKey) ==
  /\ i \in DOMAIN reqs'
  /\ CallsTo(reqs'[i], providerKey) > (IF i \in Slots THEN CallsTo(reqs[i], providerKey) ELSE 0)

\* Network calls to one provider for one text by the exchanges under way.
CallsUnderWay(providerKey, text) ==
  LET RECURSIVE Sum(_)
      Sum(n) == IF n = 0 THEN 0
                ELSE Sum(n - 1) + (IF reqs[n].text = text /\ reqs[n].pc # "sent"
                                   THEN CallsTo(reqs[n], providerKey) ELSE 0)
  IN  Sum(Len(reqs))

\* C4 as stated: the same (provider, text) request, issued twice, costs one
\* network call to that provider.
C4_Original ==
  \A providerKey \in {"libre", "mymemory"} :
    \A i \in Slots :
      Trim(reqs[i].text) # <<>> => CallsUnderWay(providerKey, reqs[i].text) <= 1

\* C4, amended: a request issues a network call to a provider only when the
\* cache holds no entry for (provider, text) at that moment, and a cached
\* entry stays: so a request that comes to a provider after a call for the
\* same text has succeeded and been stored is served from the cache without
\* a network call.
C4_CacheHitNoCall ==
  [][ /\ \A i \in DOMAIN reqs' : \A providerKey \in {"libre", "mymemory"} :
           Issues(i, providerKey) =>
             CacheKey(providerKey, reqs'[i].text) \notin DOMAIN translationCache'
      /\ \A k \in DOMAIN translationCache : k \in DOMAIN translationCache'
    ]_vars

C4_Witness ==
  \E i \in Slots :
    /\ reqs[i].pc = "responded"
    /\ CacheHit(reqs[i], "libre")
    /\ ~Called(reqs[i], "libre")
    /\ reqs[i].response.success

Providers == {"libre", "mymemory"}

\* Every provider of r's order was called and failed.
AllFailed(r) ==
  /\ r.order # <<>>
  /\ \A j \in 1..Len(r.order) : CallFailed(r, r.order[j])

\* The translation phase of r produced a result.
Produced(r) == \E p \in Providers : CallSucceeded(r, p) \/ CacheHit(r, p)

\* C5: when every provider of the order has failed, the result is the
\* failure result (success false, the fixed message, null translation and
\* provider); for a word (a text) the dictionary was still looked up, and an entry it
\* gave (from the call or the cache) is the result's dict; for a non-word no
\* dictionary call is made and dict is null.
C5_FailureKeepsDict ==
  \A i \in Slots :
    LET r == reqs[i]
    IN  (AllFailed(r) /\ r.pc = "responded")
          => /\ ~r.response.success
             /\ r.response.error = FailureMessage
             /\ r.response.translation = Null
             /\ r.response.provider = Null
             /\ (r.isWord /\ r.textIsString) =>
                  /\ DictKey(r.text) \in r.reads
                  /\ (DictKey(r.text) \in r.writes \cup r.hits) =>
                       ~r.response.dict.isNull /\ r.response.dict = r.dictResult
                  /\ (DictKey(r.text) \notin r.writes \cup r.hits) => r.response.dict.isNull
             /\ ~(r.isWord /\ r.textIsString) =>
                  r.response.dict.isNull /\ ~Called(r, "dict")

C5_Witness ==
  \E i \in Slots :
    /\ reqs[i].pc = "responded"
    /\ AllFailed(reqs[i])
    /\ Len(reqs[i].order) = 2
    /\ reqs[i].isWord
    /\ Called(reqs[i], "dict")
    /\ ~reqs[i].response.dict.isNull
    /\ ~reqs[i].response.success

\* C6: every result of handleTranslateAndDefine for a request (its text a
\* string, as the message interface declares) has success = true exactly when
\* the translation phase produced a result (a provider call returned a
\* translation or a cache entry was found), whatever the dictionary phase did:
\* an entry, no entry, an HTTP error or an exception.
C6_StringTextSuccess ==
  \A i \in Slots :
    LET r == reqs[i]
    IN  (r.pc = "responded" /\ r.textIsString) =>
          /\ r.response.success <=> Produced(r)
          /\ r.response.success <=> ~r.translationResult.isNull

\* A request whose dictionary call failed or gave no entry, and that still
\* succeeded.
C6_Witness ==
  \E i \in Slots :
    /\ reqs[i].pc = "responded"
    /\ reqs[i].textIsString
    /\ Called(reqs[i], "dict")
    /\ DictKey(reqs[i].text) \notin reqs[i].writes
    /\ reqs[i].response.dict.isNull
    /\ reqs[i].response.success

\* C7: a request whose text is empty after trimming issues no network call,
\* neither to a translate provider nor to the dictionary.
C7_BlankNeverCalls ==
  \A i \in Slots :
    (reqs[i].type = "TRANSLATE_AND_DEFINE" /\ Trim(reqs[i].text) = <<>>)
      => reqs[i].netlog = <<>>

\* C7, the half that holds: no message of the content script carries a text
\* that is empty after trimming.
C7_SelectionRejected ==
  \A i \in Slots :
    (reqs[i].origin = "ui" /\ reqs[i].pc \notin {"done", "stale", "lost"})
      => Trim(reqs[i].text) # <<>> /\ reqs[i].text = Trim(reqs[i].text)

\* The overlay data a response (or a port error) of request r is shown as.
ShownFor(r, data) ==
  /\ data.text = r.text
  /\ IF r.pc = "responded" /\ r.response.success
     THEN /\ data.translation = r.response.translation
          /\ data.provider = r.response.provider
          /\ data.ipa = r.response.dict.ipa
          /\ data.audio = r.response.dict.audio
     ELSE data.translation = "" /\ data.provider = "" /\ data.ipa = JNull /\ data.audio = JNull

\* C8: when the callback of request i runs, the overlay data becomes the
\* view of that response if no request was triggered after i, and is left
\* untouched if one was.
C8_OnlyNewestShown ==
  [][ \A i \in Slots :
        (reqs[i].origin = "ui" /\ reqs[i].cb = "pending" /\ reqs'[i].cb = "done")
          => IF \E j \in Slots : j > i /\ reqs[j].origin = "ui"
             THEN currentData' = currentData
             ELSE ShownFor(reqs[i], currentData')
    ]_vars

\* A response that came after a newer request was triggered has been
\* dropped, and the overlay still shows the newer request loading.
C8_Witness ==
  \E i \in Slots, j \in Slots :
    /\ reqs[i].pc = "stale"
    /\ j > i
    /\ reqs[j].origin = "ui"
    /\ reqs[j].cb = "pending"
    /\ currentData = LoadingData(reqs[j].text)

Min(S) == CHOOSE x \in S : \A y \in S : x <= y

\* Positions of the sub-entries with a text (an audio) that is a string and
\* not empty once trimmed.
TextAt(ps) ==
  {i \in 1..Len(ps) : ~ps[i].isNull /\ ps[i].text.t = "string" /\ Trim(ps[i].text.v) # <<>>}
AudioAt(ps) ==
  {i \in 1..Len(ps) : ~ps[i].isNull /\ ps[i].audio.t = "string" /\ Trim(ps[i].audio.v) # <<>>}

\* Positions of the sub-entries with an audio that is a non-empty string.
RawAudioAt(ps) ==
  {i \in 1..Len(ps) : ~ps[i].isNull /\ ps[i].audio.t = "string" /\ ps[i].audio.v # <<>>}

IpaOf(ps) == IF TextAt(ps) = {} THEN JNull ELSE JStr(Trim(ps[Min(TextAt(ps))].text.v))
AudioOf(ps) == IF AudioAt(ps) = {} THEN JNull ELSE JStr(Trim(ps[Min(AudioAt(ps))].audio.v))
RawAudioOf(ps) == IF RawAudioAt(ps) = {} THEN JNull ELSE JStr(ps[Min(RawAudioAt(ps))].audio.v)

\* C9 as stated: ipa is the (trimmed) transcription of the first sub-entry
\* whose text is non-empty after trim, audio is the URL of the first
\* sub-entry whose audio is non-empty; null when missing, a null entry when
\* both are.
C9_Original ==
  extracted.done =>
    IF IpaOf(phonetics) = JNull /\ RawAudioOf(phonetics) = JNull
    THEN extracted.value = DictNull
    ELSE extracted.value = DictEntry(IpaOf(phonetics), RawAudioOf(phonetics))

\* C9, amended: audio is chosen by the same test as ipa, each on its own:
\* ipa is the trimmed text of the first sub-entry whose text is a string
\* that is non-empty after trim, audio the trimmed audio of the first
\* sub-entry whose audio is a string that is non-empty after trim; a missing
\* field is null, and the entry is null when both are missing.
C9_IndependentFirstMatch ==
  extracted.done =>
    IF IpaOf(phonetics) = JNull /\ AudioOf(phonetics) = JNull
    THEN extracted.value = DictNull
    ELSE extracted.value = DictEntry(IpaOf(phonetics), AudioOf(phonetics))

\* ipa and audio taken from different sub-entries, the audio first.
C9_Witness ==
  /\ extracted.done
  /\ TextAt(phonetics) # {}
  /\ AudioAt(phonetics) # {}
  /\ Min(AudioAt(phonetics)) < Min(TextAt(phonetics))
  /\ ~extracted.value.isNull
  /\ extracted.value.ipa # JNull
  /\ extracted.value.audio # JNull

\* The provider preference a read resolves with, from how the read ends and
\* what the store holds.
ResolvedProvider(outcome, stored) ==
  IF outcome \in {"throws", "lastError"} THEN "auto"
  ELSE IF stored.kind # "object" THEN "auto"
  ELSE IF stored.provider \in {Undefined, ""} THEN "auto"
  ELSE stored.provider

\* The stored value is missing or malformed: not an object, or its provider
\* is none of auto, libre, mymemory.
MissingOrMalformed(stored) ==
  stored.kind # "object" \/ stored.provider \notin ProviderOptions

\* C10 as stated: whenever the read fails, or the stored value is missing or
\* malformed, the resolver resolves with the defaults (provider auto).
C10_Original ==
  [][ \A i \in Slots, outcome \in ReadOutcomes :
        (SettingsRead(i, outcome) /\ (outcome # "ok" \/ MissingOrMalformed(storage)))
          => reqs'[i].settings = DEFAULT_SETTINGS
    ]_vars

\* C10, the part the code meets: the resolver always resolves and never
\* rejects, whatever the read does, and writes nothing to the store. It
\* resolves with provider auto when the storage API throws, when lastError
\* is set, and when the stored value is missing, not an object, or has no
\* non-empty provider; any other stored provider is passed on unvalidated.
C10_ResolverTotal ==
  /\ [](\A i \in Slots : reqs[i].pc = "settings" =>
          \A outcome \in ReadOutcomes : ENABLED SettingsRead(i, outcome))
  /\ [][ \A i \in Slots, outcome \in ReadOutcomes :
           SettingsRead(i, outcome) =>
             /\ storage' = storage
             /\ reqs'[i].order # <<>>
             /\ reqs'[i].responses = 0
             /\ reqs'[i].settings = [provider |-> ResolvedProvider(outcome, storage)]
       ]_vars

\* The order the claim gives for a preference.
OrderFor(preference) ==
  IF preference = "libre" THEN <<"libre">>
  ELSE IF preference = "mymemory" THEN <<"mymemory">>
  ELSE Order2

\* The preference the store holds: Undefined when there is none.
StoredPreference(stored) == IF stored.kind = "object" THEN stored.provider ELSE Undefined

\* C11: the provider order is a total function of the preference: auto gives
\* [libre, mymemory], libre gives [libre], mymemory gives [mymemory], and
\* every other value, an absent one included, gives the order of auto. It
\* holds of the preference the resolver hands over and of the stored one.
C11_OrderTotal ==
  [][ \A i \in Slots, outcome \in ReadOutcomes :
        SettingsRead(i, outcome) =>
          /\ reqs'[i].order = OrderFor(reqs'[i].settings.provider)
          /\ outcome = "ok" => reqs'[i].order = OrderFor(StoredPreference(storage))
    ]_vars

\* A request read the unknown preference "bogus" from the store and got the
\* order of auto.
C11_Witness ==
  /\ storage = StoredObject("bogus")
  /\ \E i \in Slots :
       /\ reqs[i].settings.provider = "bogus"
       /\ reqs[i].order = Order2

\* Position of a provider in an order (0 when it is not in it).
PlaceIn(order, providerKey) ==
  IF \E j \in 1..Len(order) : order[j] = providerKey
  THEN CHOOSE j \in 1..Len(order) : order[j] = providerKey
  ELSE 0

\* C12: the network calls of one request form a sequential chain that does
\* not loop: at most one call is outstanding, each provider of the order is
\* called at most once and in the order's sequence, and the dictionary call
\* comes once, last, after the translation phase, and only when isWord.
C12_SequentialChain ==
  \A i \in Slots :
    LET r == reqs[i]
        log == r.netlog
    IN  /\ r.inflight \in {0, 1}
        /\ r.inflight = 1 <=> r.pc \in {"translate", "dict"}
        /\ \A what \in Providers \cup {"dict"} : CallsTo(r, what) <= 1
        /\ \A j \in 1..Len(log) :
             log[j] # "dict" =>
               /\ PlaceIn(r.order, log[j]) > 0
               /\ \A k \in 1..Len(log) :
                    (j < k /\ log[k] # "dict") =>
                      PlaceIn(r.order, log[j]) < PlaceIn(r.order, log[k])
        /\ Called(r, "dict") =>
             /\ log[Len(log)] = "dict"
             /\ r.isWord
             /\ r.pc \in {"dict", "responded"}
        /\ r.pc = "translate" => log[Len(log)] = r.order[r.idx]

\* A request went through the whole chain: primary, secondary, dictionary.
C12_Witness ==
  \E i \in Slots :
    /\ reqs[i].netlog = <<"libre", "mymemory", "dict">>
    /\ reqs[i].pc = "responded"
    /\ reqs[i].inflight = 0

\* Request i stores a provider result in the step.
StoresIn(i) == i \in Slots /\ reqs[i].pc = "translate" /\ reqs'[i].writes # reqs[i].writes

\* C13: requests for the same (provider, text) that overlap are not
\* serialised: each one that missed the cache may be answered at any time,
\* whatever the others do, and each that gets a translation writes the entry,
\* also over one written meanwhile, so the entry is the last one written.
C13_LastWriterWins ==
  /\ [](\A i \in Slots : reqs[i].pc = "translate" =>
          ENABLED (\E resp \in ProviderResponses(reqs[i].order[reqs[i].idx]) :
                     ProviderReply(i, resp)))
  /\ [][ \A i \in Slots :
           StoresIn(i) =>
             LET cacheKey == CacheKey(reqs[i].order[reqs[i].idx], reqs[i].text)
             IN  /\ cacheKey \in DOMAIN translationCache'
                 /\ translationCache'[cacheKey] = reqs'[i].returned
                 /\ \A k \in DOMAIN translationCache :
                      k # cacheKey => /\ k \in DOMAIN translationCache'
                                      /\ translationCache'[k] = translationCache[k]
       ]_vars

\* Two requests for one text both called the primary provider, got
\* different translations and both wrote the entry.
C13_Witness ==
  \E i \in Slots, j \in Slots :
    /\ i # j
    /\ reqs[i].text = reqs[j].text
    /\ Called(reqs[i], "libre") /\ CallSucceeded(reqs[i], "libre")
    /\ Called(reqs[j], "libre") /\ CallSucceeded(reqs[j], "libre")
    /\ reqs[i].returned # reqs[j].returned
    /\ translationCache[CacheKey("libre", reqs[i].text)] = reqs[j].returned

\* A dictionary cache key of a lowercased word.
LowercasedDictKey(k) ==
  /\ Len(k) >= 6
  /\ SubSeq(k, 1, 6) = <<"D", "I", "C", "T", ":", ":">>
  /\ ToLowerCase(SubSeq(k, 7, Len(k))) = SubSeq(k, 7, Len(k))

\* Request i leaves the translation phase in the step.
EntersDictPhase(i) ==
  /\ i \in Slots
  /\ reqs[i].pc \in {"settings", "translate"}
  /\ reqs'[i].pc \in {"dict", "responded"}

\* The dictionary call of request i comes back in the step.
DictCallReturns(i) == i \in Slots /\ reqs[i].pc = "dict" /\ reqs'[i].pc = "responded"

\* C14: the dictionary cache holds non-null entries only, under the
\* lowercased word. A lookup that fails or finds neither ipa nor audio leaves
\* the cache as it was and the request answers with dict = null; a request
\* with isWord true and a text issues a dictionary call whenever the cache has
\* no entry for its word, so a word without an entry is looked up again every time.
C14_NullNeverCached ==
  /\ [](\A k \in DOMAIN dictCache : ~dictCache[k].isNull /\ LowercasedDictKey(k))
  /\ [][ \A i \in Slots :
           /\ EntersDictPhase(i) =>
                (Issues(i, "dict") <=>
                   (reqs[i].isWord /\ reqs[i].textIsString
                      /\ DictKey(reqs[i].text) \notin DOMAIN dictCache))
           /\ DictCallReturns(i) =>
                IF reqs'[i].response.dict.isNull
                THEN dictCache' = dictCache
                ELSE /\ DOMAIN dictCache' = DOMAIN dictCache \cup {DictKey(reqs[i].text)}
                     /\ dictCache'[DictKey(reqs[i].text)] = reqs'[i].response.dict
       ]_vars

\* A lookup of a word came back without an entry, nothing was cached, and
\* another request for the same word (in another case) looks it up again.
C14_Witness ==
  \E i \in Slots, j \in Slots :
    /\ reqs[i].pc = "responded"
    /\ Called(reqs[i], "dict")
    /\ reqs[i].response.dict.isNull
    /\ reqs[j].pc = "dict"
    /\ reqs[i].text # reqs[j].text
    /\ DictKey(reqs[i].text) = DictKey(reqs[j].text)
    /\ dictCache = EmptyMap

\* C15 as stated: once the overlay data has been cleared by hideOverlay it
\* stays cleared until a new translation is triggered (which takes a new
\* request id); a response that arrives meanwhile does not fill it again.
C15_StaysCleared ==
  [][ (wrapper /\ currentData = ClearedData) =>
        (currentData' = ClearedData \/ currentRequestId' # currentRequestId)
    ]_vars

\* C15, the part the code meets: after a hide the overlay data is filled
\* again only by a new trigger or by the callback of the newest request;
\* the callback of an older request leaves it cleared.
C15_OnlyNewestRefills ==
  [][ (wrapper /\ currentData = ClearedData /\ currentData' # ClearedData) =>
        \/ currentRequestId' # currentRequestId
        \/ \E i \in Slots :
             /\ reqs[i].origin = "ui" /\ reqs[i].cb = "pending"
             /\ reqs[i].rid = currentRequestId
             /\ reqs'[i].cb = "done"
             /\ currentData'.text = reqs[i].text
    ]_vars

\* C16: every TRANSLATE_AND_DEFINE message the listener receives is answered
\* exactly once: sendResponse is never called twice for a message, is called
\* with the handler's result (or the fixed failure response), and, when the
\* settings read and the network calls come to an end, is called in the end;
\* a message without a string type or of another type is never answered.
C16_AnsweredOnce ==
  /\ [](\A i \in Slots :
          LET r == reqs[i]
          IN  /\ r.responses \in {0, 1}
              /\ r.type # "TRANSLATE_AND_DEFINE" => (r.responses = 0 /\ r.pc = "ignored")
              /\ r.pc \in {"sent", "settings", "translate", "dict", "lost", "ignored"}
                   => r.responses = 0
              /\ r.pc = "responded" =>
                   /\ r.responses = 1
                   /\ r.response \in {BuildResponse(r.translationResult, r.dictResult),
                                      CatchResponse})
  /\ \A i \in 1..MaxReq :
       (i \in Slots /\ reqs[i].pc = "settings") ~> (i \in Slots /\ reqs[i].responses = 1)

\* One message was answered with a success, another was ignored.
C16_Witness ==
  \E i \in Slots, j \in Slots :
    /\ reqs[i].origin = "ext"
    /\ reqs[i].pc = "responded"
    /\ reqs[i].responses = 1
    /\ reqs[i].response.success
    /\ reqs[j].pc = "ignored"
    /\ reqs[j].responses = 0

\* The name a provider puts in its results.
NameOf(providerKey) == IF providerKey = "libre" THEN "LibreTranslate" ELSE "MyMemory"

\* C17: every entry of the translation cache is a successful result with a
\* non-empty translation, stored under provider::text by a call to that
\* provider for that text that returned it; a failed attempt stores nothing,
\* no entry is ever removed, and the dictionary cache changes only when a
\* dictionary call comes back, never in the translation phase.
C17_CacheInvariant ==
  /\ [](\A k \in DOMAIN translationCache :
          /\ ~translationCache[k].isNull
          /\ translationCache[k].translation \in Translations
          /\ \E providerKey \in Providers :
               /\ KeyOf(providerKey, k)
               /\ translationCache[k].provider = NameOf(providerKey))
  /\ [][ /\ \A k \in DOMAIN translationCache : k \in DOMAIN translationCache'
         /\ translationCache' # translationCache =>
              \E i \in Slots :
                LET r == reqs[i]
                IN  /\ r.pc = "translate"
                    /\ reqs'[i].writes = r.writes \cup {CacheKey(r.order[r.idx], r.text)}
                    /\ ~reqs'[i].returned.isNull
                    /\ reqs'[i].returned.provider = NameOf(r.order[r.idx])
                    /\ translationCache' =
                         MapSet(translationCache, CacheKey(r.order[r.idx], r.text),
                                reqs'[i].returned)
         /\ \A i \in Slots :
              (reqs[i].pc = "translate" /\ reqs'[i] # reqs[i]
                 /\ reqs'[i].writes = reqs[i].writes)
                => translationCache' = translationCache
         /\ dictCache' # dictCache => \E i \in Slots : reqs[i].pc = "dict"
       ]_vars

\* The cache holds entries of both providers for one text, after a failed
\* primary call and a later successful one.
C17_Witness ==
  \E i \in Slots :
    /\ CallFailed(reqs[i], "libre")
    /\ CallSucceeded(reqs[i], "mymemory")
    /\ CacheKey("libre", reqs[i].text) \in DOMAIN translationCache
    /\ CacheKey("mymemory", reqs[i].text) \in DOMAIN translationCache

\* C18: the cache is looked up provider by provider, in the order. In auto
\* order a request that uses the entry cached under the secondary provider
\* has first called the primary provider over the network and seen it fail,
\* and makes no network call to the secondary; and a request that starts
\* with an entry under the secondary key only calls the primary first.
C18_CachePerProvider ==
  /\ [](\A i \in Slots :
          LET r == reqs[i]
          IN  (r.order = Order2 /\ CacheHit(r, "mymemory")) =>
                /\ r.netlog # <<>>
                /\ r.netlog[1] = "libre"
                /\ CallFailed(r, "libre")
                /\ ~CacheHit(r, "libre")
                /\ ~Called(r, "mymemory")
                /\ r.translationResult.provider = "MyMemory")
  /\ [][ \A i \in Slots :
           ( /\ reqs[i].pc = "settings"
             /\ reqs'[i].order = Order2
             /\ CacheKey("libre", reqs[i].text) \notin DOMAIN translationCache
             /\ CacheKey("mymemory", reqs[i].text) \in DOMAIN translationCache )
           => /\ reqs'[i].pc = "translate"
              /\ reqs'[i].netlog = <<"libre">>
              /\ reqs'[i].hits = {}
       ]_vars

\* A request in auto order called the primary provider, which failed, and
\* was then served from the entry cached under the secondary provider.
C18_Witness ==
  \E i \in Slots :
    /\ reqs[i].order = Order2
    /\ reqs[i].pc = "responded"
    /\ CallFailed(reqs[i], "libre")
    /\ CacheHit(reqs[i], "mymemory")
    /\ ~Called(reqs[i], "mymemory")
    /\ reqs[i].response.success
    /\ reqs[i].response.provider = "MyMemory"
====
